---------------------------- MODULE Spec2Model ----------------------------
(***************************************************************************)
(* Model of the CRM browser utilities: the two variants of the utility     *)
(* script, src/utils.js ("root") and src/js/utils.js ("js").               *)
(*                                                                         *)
(*   - form validation   (validators, validateForm)       SpecValidate     *)
(*   - network client    (ApiClient / APIClient)          SpecApi          *)
(*   - modals            (Modal.show/hide, open/close)    SpecModal        *)
(*   - notifications     (Notification.show, showToast)   SpecNotify       *)
(*   - debounce          (debounce)                       SpecDebounce     *)
(*                                                                         *)
(* JavaScript strings that the validators inspect are sequences of         *)
(* one-character strings, so that trimming and the regular expressions     *)
(* are computed character by character.                                    *)
(***************************************************************************)
EXTENDS Integers, Sequences, FiniteSets, TLC

VARIABLES
    \* ---- form validation ----
    variant,        \* which script is loaded: "root" or "js"
    formData,       \* the value bag: field -> JS value
    rules,          \* the rule spec: field -> sequence of rules
    outcome,        \* "none" before the call, then the result of validateForm
    \* ---- network client ----
    calls,          \* call id -> the state of that request() invocation
    \* ---- modals ----
    hidden,         \* modal id -> whether the node carries class "hidden"
    overflow,       \* document.body.style.overflow
    history,        \* the last two modal operations, newest first
    \* ---- notifications ----
    bodyNodes,      \* notification/toast nodes attached to document.body
    styleBlocks,    \* number of <style id="notification-styles"> in head
    timers,         \* node id -> deadline of its pending setTimeout
    now,            \* the event loop's clock (ms)
    shown,          \* sequence of records, one per show call, in order
    \* ---- debounce ----
    timeout,        \* the closure variable `timeout`: a timer id, or 0
    pending,        \* timer id -> args, the timers setTimeout still holds
    nextTimer,      \* the id setTimeout hands out next
    events          \* log of calls of the debounced function and of func

valVars == <<variant, formData, rules, outcome>>
apiVars == <<calls>>
modalVars == <<hidden, overflow, history>>
notifVars == <<bodyNodes, styleBlocks, timers, now, shown>>
debVars == <<timeout, pending, nextTimer, events>>
vars == <<valVars, apiVars, modalVars, notifVars, debVars>>

(***************************************************************************)
(* JavaScript values                                                       *)
(***************************************************************************)
Undefined == [t |-> "undefined", s |-> <<>>, n |-> 0]
Str(chars) == [t |-> "string", s |-> chars, n |-> 0]
Num(k) == [t |-> "number", s |-> <<>>, n |-> k]

\* ToBoolean
Truthy(v) ==
    CASE v.t = "undefined" -> FALSE
      [] v.t = "string" -> v.s # <<>>
      [] v.t = "number" -> v.n # 0

Digits == {"0", "1", "2", "3", "4", "5", "6", "7", "8", "9"}
NonZeroDigits == Digits \ {"0"}
Whitespace == {" "}

\* The decimal digits of a natural number, as characters.
RECURSIVE DigitsOf(_)
DigitsOf(k) ==
    LET d == CHOOSE c \in Digits : ToString(k % 10) = c
    IN IF k < 10 THEN <<d>> ELSE DigitsOf(k \div 10) \o <<d>>

\* String(v): what RegExp.prototype.test and toString() see.
ToStr(v) ==
    CASE v.t = "undefined" -> <<"u", "n", "d", "e", "f", "i", "n", "e", "d">>
      [] v.t = "string" -> v.s
      [] v.t = "number" -> DigitsOf(v.n)

\* String.prototype.trim
RECURSIVE TrimLeft(_)
TrimLeft(s) ==
    IF s # <<>> /\ Head(s) \in Whitespace THEN TrimLeft(Tail(s)) ELSE s

RECURSIVE TrimRight(_)
TrimRight(s) ==
    IF s # <<>> /\ s[Len(s)] \in Whitespace
    THEN TrimRight(SubSeq(s, 1, Len(s) - 1))
    ELSE s

Trim(s) == TrimRight(TrimLeft(s))

\* s.replace(/[set]/g, "")
Strip(s, set) == SelectSeq(s, LAMBDA c : c \notin set)

\* /^[^\s@]+@[^\s@]+\.[^\s@]+$/
emailRegex(s) ==
    LET Plain(i, j) == i <= j /\ \A k \in i..j : s[k] \notin (Whitespace \cup {"@"})
    IN \E i \in 1..Len(s) : \E j \in 1..Len(s) :
          /\ s[i] = "@"
          /\ s[j] = "."
          /\ Plain(1, i - 1)
          /\ Plain(i + 1, j - 1)
          /\ Plain(j + 1, Len(s))

\* /^[+]?[1-9][\d]{0,15}$/
phoneRegex(s) ==
    LET body == IF s # <<>> /\ Head(s) = "+" THEN Tail(s) ELSE s
    IN /\ body # <<>>
       /\ Head(body) \in NonZeroDigits
       /\ Len(body) <= 16
       /\ \A k \in 2..Len(body) : body[k] \in Digits

(***************************************************************************)
(* The validator registry of src/utils.js: boolean predicates.             *)
(* Each returns "truthy", "falsy" or "throw" (a TypeError).                *)
(***************************************************************************)
Bool(b) == IF b THEN "truthy" ELSE "falsy"

\* value && value.toString().trim() !== ""
requiredRoot(value) == Bool(Truthy(value) /\ Trim(ToStr(value)) # <<>>)

\* emailRegex.test(value): test() converts its argument to a string
emailRoot(value) == Bool(emailRegex(ToStr(value)))

\* phoneRegex.test(value.replace(/[\s\-$$$$]/g, "")): replace exists on strings only
phoneRoot(value) ==
    IF value.t # "string"
    THEN "throw"
    ELSE Bool(phoneRegex(Strip(value.s, Whitespace \cup {"-", "$"})))

\* value && value.length >= min   (undefined >= n and n >= undefined are false)
minLengthRoot(min, value) ==
    Bool(/\ Truthy(value)
         /\ value.t = "string"
         /\ min.t = "number"
         /\ Len(value.s) >= min.n)

\* !value || value.length <= max
maxLengthRoot(max, value) ==
    Bool(\/ ~Truthy(value)
         \/ /\ value.t = "string"
            /\ max.t = "number"
            /\ Len(value.s) <= max.n)

(***************************************************************************)
(* The validator registry of src/js/utils.js: each predicate returns null  *)
(* or its error message.  Results are [k |-> "null" | "msg" | "throw"].    *)
(***************************************************************************)
Null == [k |-> "null", msg |-> ""]
Msg(m) == [k |-> "msg", msg |-> m]
Throws == [k |-> "throw", msg |-> ""]

\* value && value.trim() !== "" ? null : "This field is required"
requiredJs(value) ==
    IF ~Truthy(value)
    THEN Msg("This field is required")
    ELSE IF value.t # "string"
         THEN Throws
         ELSE IF Trim(value.s) # <<>> THEN Null ELSE Msg("This field is required")

emailJs(value) ==
    IF emailRegex(ToStr(value)) THEN Null ELSE Msg("Please enter a valid email address")

\* phoneRegex.test(value.replace(/\s/g, ""))
phoneJs(value) ==
    IF value.t # "string"
    THEN Throws
    ELSE IF phoneRegex(Strip(value.s, Whitespace))
         THEN Null
         ELSE Msg("Please enter a valid phone number")

\* value && value.length >= min ? null : `Must be at least ${min} characters`
minLengthJs(min, value) ==
    IF Truthy(value) /\ value.t = "string" /\ min.t = "number" /\ Len(value.s) >= min.n
    THEN Null
    ELSE Msg("Must be at least "
             \o (IF min.t = "number" THEN ToString(min.n) ELSE "undefined")
             \o " characters")

(***************************************************************************)
(* Rules.  A rule is [shape, validator, param, message]:                   *)
(*   shape "string"   : a bare validator name, e.g. "required"             *)
(*   shape "object"   : { validator, message?, <param>? }                  *)
(*   shape "function" : a predicate function returning null or a message; *)
(*                      the ones used are the registry entries of          *)
(*                      src/js/utils.js (validators.required,              *)
(*                      validators.minLength(3), ...)                      *)
(* message "" stands for "no message given" (message || default).          *)
(***************************************************************************)
StringRule(name) ==
    [shape |-> "string", validator |-> name, param |-> Undefined, message |-> ""]
ObjectRule(name, param, message) ==
    [shape |-> "object", validator |-> name, param |-> param, message |-> message]
FunctionRule(name, param) ==
    [shape |-> "function", validator |-> name, param |-> param, message |-> ""]

\* Own keys of the registry object of src/utils.js ...
RegistryRoot == {"required", "email", "phone", "minLength", "maxLength"}
\* ... and of src/js/utils.js.
RegistryJs == {"required", "email", "phone", "minLength"}
\* Property names every object literal inherits from Object.prototype.
InheritedNames == {"toString"}

\* Calling a predicate function (shape "function") on a value.
ApplyFunction(rule, value) ==
    CASE rule.validator = "required" -> requiredJs(value)
      [] rule.validator = "email" -> emailJs(value)
      [] rule.validator = "phone" -> phoneJs(value)
      [] rule.validator = "minLength" -> minLengthJs(rule.param, value)

\* validators[name](arg) in src/utils.js: the value the call produces.
\*   [k |-> "throw"]                      calling undefined, or the callee threw
\*   [k |-> "value", truthy, closure]     closure: the call returned a function
Produced(truthy, closure) == [k |-> "value", truthy |-> truthy, closure |-> closure]
CallThrows == [k |-> "throw", truthy |-> FALSE, closure |-> FALSE]

LookupCallRoot(name, arg) ==
    CASE name = "required" ->
            Produced(requiredRoot(arg) = "truthy", FALSE)
      [] name = "email" ->
            Produced(emailRoot(arg) = "truthy", FALSE)
      [] name = "phone" ->
            IF phoneRoot(arg) = "throw"
            THEN CallThrows
            ELSE Produced(phoneRoot(arg) = "truthy", FALSE)
      [] name \in {"minLength", "maxLength"} ->
            Produced(TRUE, TRUE)           \* (value) => ..., a function
      [] name \in InheritedNames ->
            Produced(TRUE, FALSE)          \* Object.prototype.toString: a string
      [] OTHER -> CallThrows               \* validators[name] is undefined

\* validators[name](param)(value): applying the closure a factory returned.
ApplyClosureRoot(name, param, value) ==
    IF name = "minLength" THEN minLengthRoot(param, value) ELSE maxLengthRoot(param, value)

(***************************************************************************)
(* validateForm.  The inner loop over one field's rules returns            *)
(*   [k |-> "pass" | "error" | "throw", msg, applied]                      *)
(* where applied is the set of positions whose validator the loop called   *)
(* (bookkeeping for the properties; the code keeps no such set).           *)
(***************************************************************************)
FieldResult(k, msg, applied) == [k |-> k, msg |-> msg, applied |-> applied]

\* One rule of src/utils.js: "pass", "error" (with its message), "throw" or
\* "skip" (neither branch of the typeof dispatch is taken).
RuleStepRoot(field, rule, value) ==
    CASE rule.shape = "string" ->
            LET r == LookupCallRoot(rule.validator, value)
            IN IF r.k = "throw"
               THEN [k |-> "throw", msg |-> ""]
               ELSE IF ~r.truthy
                    THEN [k |-> "error", msg |-> field \o " is " \o rule.validator]
                    ELSE [k |-> "pass", msg |-> ""]
      [] rule.shape = "object" ->
            LET r == LookupCallRoot(rule.validator, rule.param)
            IN IF r.k = "throw" \/ ~r.closure
               THEN [k |-> "throw", msg |-> ""]   \* not a function: TypeError
               ELSE IF ApplyClosureRoot(rule.validator, rule.param, value) = "falsy"
                    THEN [k |-> "error",
                          msg |-> IF rule.message # ""
                                  THEN rule.message
                                  ELSE field \o " validation failed"]
                    ELSE [k |-> "pass", msg |-> ""]
      [] OTHER -> [k |-> "skip", msg |-> ""]

\* One rule of src/js/utils.js: rule(value); only a function can be called.
RuleStepJs(rule, value) ==
    IF rule.shape # "function"
    THEN [k |-> "throw", msg |-> ""]              \* rule is not a function
    ELSE LET r == ApplyFunction(rule, value)
         IN CASE r.k = "throw" -> [k |-> "throw", msg |-> ""]
              [] r.k = "msg" /\ r.msg # "" -> [k |-> "error", msg |-> r.msg]
              [] OTHER -> [k |-> "pass", msg |-> ""]

RuleStep(v, field, rule, value) ==
    IF v = "root" THEN RuleStepRoot(field, rule, value) ELSE RuleStepJs(rule, value)

\* for (const rule of fieldRules) { ... break at the first error }
RECURSIVE FieldLoop(_, _, _, _, _)
FieldLoop(v, field, fieldRules, value, i) ==
    IF i > Len(fieldRules)
    THEN FieldResult("pass", "", {})
    ELSE LET step == RuleStep(v, field, fieldRules[i], value)
             here == IF step.k = "skip" THEN {} ELSE {i}
         IN IF step.k \in {"throw", "error"}
            THEN FieldResult(step.k, step.msg, here)
            ELSE LET rest == FieldLoop(v, field, fieldRules, value, i + 1)
                 IN FieldResult(rest.k, rest.msg, here \cup rest.applied)

\* The fields of the forms considered, in the insertion order of the rule spec.
Fields == <<"name", "contact">>
FieldSet == {Fields[i] : i \in 1..Len(Fields)}

\* formData[field]: undefined when the bag has no such key.
ValueOf(data, field) == IF field \in DOMAIN data THEN data[field] ELSE Undefined

\* for (const [field, fieldRules] of Object.entries(rules)) { ... }
\* acc is [k |-> "returned" | "threw", errors, applied].
RECURSIVE FormLoop(_, _, _, _, _)
FormLoop(v, data, ruleSpec, n, acc) ==
    IF n > Len(Fields)
    THEN acc
    ELSE LET field == Fields[n]
         IN IF field \notin DOMAIN ruleSpec
            THEN FormLoop(v, data, ruleSpec, n + 1, acc)
            ELSE LET r == FieldLoop(v, field, ruleSpec[field], ValueOf(data, field), 1)
                     applied == (field :> r.applied) @@ acc.applied
                 IN CASE r.k = "throw" ->
                            [k |-> "threw", errors |-> acc.errors, applied |-> applied]
                      [] r.k = "error" ->
                            FormLoop(v, data, ruleSpec, n + 1,
                                     [k |-> "returned",
                                      errors |-> (field :> r.msg) @@ acc.errors,
                                      applied |-> applied])
                      [] OTHER ->
                            FormLoop(v, data, ruleSpec, n + 1,
                                     [acc EXCEPT !.applied = applied])

EmptyMap == [x \in {} |-> ""]
NoneApplied == [x \in {} |-> {}]

\* validateForm(formData, rules) of the variant v.  src/utils.js wraps the
\* mapping as { isValid, errors }; src/js/utils.js returns the mapping itself.
validateForm(v, data, ruleSpec) ==
    LET r == FormLoop(v, data, ruleSpec, 1,
                      [k |-> "returned", errors |-> EmptyMap, applied |-> NoneApplied])
    IN IF r.k = "threw"
       THEN [k |-> "threw", errors |-> EmptyMap, applied |-> r.applied,
             wrapped |-> FALSE, isValid |-> FALSE]      \* nothing is returned
       ELSE [k |-> "returned",
             errors |-> r.errors,
             applied |-> r.applied,
             wrapped |-> (v = "root"),
             isValid |-> (Cardinality(DOMAIN r.errors) = 0)]

(***************************************************************************)
(* SpecValidate: one call of validateForm on a value bag and a rule spec   *)
(* drawn from the sets below.                                              *)
(***************************************************************************)
MaxRules == 2           \* longest rule list of the field "contact"
ParamN == 3             \* the bound used in minLength / maxLength rules

SampleStrings ==
    { <<>>,
      <<" ">>,
      <<"a", "b">>,
      <<"a", "b", "c">>,
      <<"a", "b", "c", "d">>,
      <<"a", "@", "b", ".", "c", "o">>,
      <<"a", "@", "b">>,
      <<"a", " ", "b", "@", "c", ".", "c", "o">>,
      <<"+", "1", "2", "3", "4", "5", "6", "7", "8", "9", "0", "1">>,
      <<"0", "1", "2", "3">>,
      <<"1", "-", "2">> }

Values == {Undefined, Num(5)} \cup {Str(s) : s \in SampleStrings}

Rules ==
    {StringRule(name) : name \in {"required", "email", "phone", "minLength",
                                  "nope", "toString"}}
    \cup {ObjectRule("minLength", Num(ParamN), ""),
          ObjectRule("minLength", Num(ParamN), "too short"),
          ObjectRule("maxLength", Num(ParamN), ""),
          ObjectRule("required", Undefined, "needed"),
          ObjectRule("nope", Undefined, "")}
    \cup {FunctionRule("required", Undefined),
          FunctionRule("phone", Undefined),
          FunctionRule("minLength", Num(ParamN))}

RuleLists(n) == UNION {[1..k -> Rules] : k \in 0..n}

\* A bag holds a key only for a value that is present.
Bag(name, contact) ==
    [f \in {g \in FieldSet : (IF g = "name" THEN name ELSE contact) # Undefined}
        |-> IF f = "name" THEN name ELSE contact]

NotCalled ==
    [k |-> "none", errors |-> EmptyMap, applied |-> NoneApplied,
     wrapped |-> FALSE, isValid |-> FALSE]

InitApiIdle == calls = <<>>
InitModalIdle ==
    /\ hidden = <<>>
    /\ overflow = ""
    /\ history = <<>>
InitNotifIdle ==
    /\ bodyNodes = {}
    /\ styleBlocks = 0
    /\ timers = <<>>
    /\ now = 0
    /\ shown = <<>>
InitDebIdle ==
    /\ timeout = 0
    /\ pending = <<>>
    /\ nextTimer = 1
    /\ events = <<>>
InitFormIdle ==
    /\ formData = EmptyMap
    /\ rules = EmptyMap
    /\ outcome = NotCalled

InitValidate ==
    /\ variant \in {"root", "js"}
    /\ \E name \in {Undefined, Str(<<"a", "b">>)} : \E contact \in Values :
          formData = Bag(name, contact)
    /\ \E rn \in RuleLists(1) : \E rc \in RuleLists(MaxRules) :
          rules = [f \in FieldSet |-> IF f = "name" THEN rn ELSE rc]
    /\ outcome = NotCalled
    /\ InitApiIdle /\ InitModalIdle /\ InitNotifIdle /\ InitDebIdle

\* The caller invokes validateForm(formData, rules).
ValidateForm ==
    /\ outcome.k = "none"
    /\ outcome' = validateForm(variant, formData, rules)
    /\ UNCHANGED <<variant, formData, rules, apiVars, modalVars, notifVars, debVars>>

NextValidate == ValidateForm

SpecValidate == InitValidate /\ [][NextValidate]_vars

(***************************************************************************)
(* Properties of validateForm                                              *)
(***************************************************************************)
Returned == outcome.k = "returned"
Threw == outcome.k = "threw"
Called == outcome.k # "none"

\* What a rule's predicate says about a value, as the rule is written:
\* a named rule stands for the registry predicate of the loaded script (with
\* the rule's parameter), a function rule for the function itself.
\* "accept", "reject", or "none" (the predicate throws or does not exist; the
\* bare name of minLength or maxLength carries no bound and names none).
Verdict(v, rule, value) ==
    IF rule.shape = "function"
    THEN LET r == ApplyFunction(rule, value)
         IN CASE r.k = "msg" -> "reject" [] r.k = "null" -> "accept" [] OTHER -> "none"
    ELSE IF rule.shape = "string" /\ rule.validator \in {"minLength", "maxLength"}
    THEN "none"
    ELSE IF v = "root"
         THEN CASE rule.validator = "required" ->
                      IF requiredRoot(value) = "falsy" THEN "reject" ELSE "accept"
                [] rule.validator = "email" ->
                      IF emailRoot(value) = "falsy" THEN "reject" ELSE "accept"
                [] rule.validator = "phone" ->
                      CASE phoneRoot(value) = "falsy" -> "reject"
                        [] phoneRoot(value) = "truthy" -> "accept"
                        [] OTHER -> "none"
                [] rule.validator = "minLength" ->
                      IF minLengthRoot(rule.param, value) = "falsy"
                      THEN "reject" ELSE "accept"
                [] rule.validator = "maxLength" ->
                      IF maxLengthRoot(rule.param, value) = "falsy"
                      THEN "reject" ELSE "accept"
                [] OTHER -> "none"
         ELSE IF rule.validator \in RegistryJs
              THEN LET r == ApplyFunction(rule, value)
                   IN CASE r.k = "msg" -> "reject" [] r.k = "null" -> "accept"
                        [] OTHER -> "none"
              ELSE "none"

\* The message that belongs to a rule when it rejects the value of a field.
MessageOf(field, rule, value) ==
    CASE rule.shape = "function" -> ApplyFunction(rule, value).msg
      [] rule.message # "" -> rule.message
      [] rule.shape = "string" -> field \o " is " \o rule.validator
      [] OTHER -> field \o " validation failed"

Failing(f) ==
    {i \in 1..Len(rules[f]) : Verdict(variant, rules[f][i], ValueOf(formData, f)) = "reject"}
FirstFailing(f) == CHOOSE i \in Failing(f) : \A j \in Failing(f) : i <= j
AppliedTo(f) == IF f \in DOMAIN outcome.applied THEN outcome.applied[f] ELSE {}

\* C1: the mapping validateForm returns has a key for field f exactly when
\* some rule of f's list fails on f's value; the message is the one of the
\* earliest failing rule, and no later rule of the list is evaluated.
C1_FirstErrorWins ==
    Returned =>
        \A f \in DOMAIN rules :
            /\ (f \in DOMAIN outcome.errors) <=> (Failing(f) # {})
            /\ Failing(f) # {} =>
                  /\ outcome.errors[f] =
                        MessageOf(f, rules[f][FirstFailing(f)], ValueOf(formData, f))
                  /\ AppliedTo(f) \subseteq 1..FirstFailing(f)

\* A rule that names a built-in validator the way its script takes them:
\* src/utils.js by name (with the bound, for minLength and maxLength),
\* src/js/utils.js as the registry function itself.
BuiltIn(v, rule) ==
    IF v = "root"
    THEN \/ rule.shape = "string" /\ rule.validator \in {"required", "email", "phone"}
         \/ /\ rule.shape = "object"
            /\ rule.validator \in {"minLength", "maxLength"}
            /\ rule.param.t = "number"
    ELSE rule.shape = "function" /\ rule.validator \in RegistryJs

OnlyBuiltIns ==
    \A f \in DOMAIN rules : \A i \in 1..Len(rules[f]) : BuiltIn(variant, rules[f][i])

\* C7: with rules built only from the built-in validators, validateForm
\* never throws, whatever the values are (absent, empty, not a string):
\* it returns the mapping, and isValid exactly when the mapping is empty.
C7_NeverRaises ==
    (Called /\ OnlyBuiltIns) =>
        /\ Returned
        /\ outcome.isValid <=> (DOMAIN outcome.errors = {})

\* A rule in one of the two supported shapes: a named reference to a
\* registry validator (by bare name, or as an object with an optional
\* message and parameter), or a predicate function.
Supported(v, rule) ==
    \/ rule.shape = "function"
    \/ /\ rule.shape \in {"string", "object"}
       /\ rule.validator \in (IF v = "root" THEN RegistryRoot ELSE RegistryJs)
       /\ (rule.validator \in {"minLength", "maxLength"}) <=> (rule.param.t = "number")

\* Every rule is in a supported shape and its predicate decides the field's
\* value (it neither throws on it nor is missing).
OnlySupported ==
    \A f \in DOMAIN rules : \A i \in 1..Len(rules[f]) :
        /\ Supported(variant, rules[f][i])
        /\ Verdict(variant, rules[f][i], ValueOf(formData, f)) # "none"

\* The positions of f's list up to and including the first failing rule.
UpToFirstFailure(f) ==
    IF Failing(f) = {} THEN 1..Len(rules[f]) ELSE 1..FirstFailing(f)

\* C8: for every rule list mixing named rules and predicate functions, every
\* rule up to the first failure is applied to the value: none is skipped
\* and none makes the call throw.
C8_BothShapesApplied ==
    (Called /\ OnlySupported) =>
        /\ Returned
        /\ \A f \in DOMAIN rules : AppliedTo(f) = UpToFirstFailure(f)

\* A named rule (string or object form) whose name is no key of the registry.
UnknownName(v, rule) ==
    /\ rule.shape \in {"string", "object"}
    /\ rule.validator \notin (IF v = "root" THEN RegistryRoot ELSE RegistryJs)

HasUnknownName ==
    \E f \in DOMAIN rules : \E i \in 1..Len(rules[f]) : UnknownName(variant, rules[f][i])

\* C9: a rule spec that names an unknown validator anywhere makes
\* validateForm raise instead of returning a result.
C9_UnknownNameRaises == (Called /\ HasUnknownName) => Threw

(***************************************************************************)
(* The network client: ApiClient (src/utils.js), APIClient                 *)
(* (src/js/utils.js).  calls is the sequence of request() invocations;     *)
(* each is a record                                                        *)
(*   v        the script whose client was called                           *)
(*   entry    "get" | "post" | "put" | "delete" | "request"                *)
(*   options  the options object request() received (own keys only)        *)
(*   pc       "fetching" (awaiting fetch), "decoding" (awaiting            *)
(*            response.json()), "resolved", "rejected"                     *)
(*   config   what was handed to fetch, or NoConfig                        *)
(*   fetches  number of fetch calls made                                   *)
(*   logs     number of console.error calls made                           *)
(*   reply    what the transport did: "pending", a response record, or     *)
(*            the error it rejected with                                   *)
(*   decoded  "pending", the parsed body, or the error json() rejected with*)
(*   result   the value or error the caller's promise settled with         *)
(*   payload  the data argument of post / put (kept for the properties)    *)
(***************************************************************************)
MaxCalls == 2           \* requests issued in one behaviour

DefaultHeaders == [h \in {"Content-Type"} |-> "application/json"]

\* Header objects a caller may pass as options.headers.
CallerHeaders ==
    { [h \in {} |-> ""],
      [h \in {"Authorization"} |-> "Bearer t"],
      [h \in {"Content-Type"} |-> "text/plain"],
      [h \in {"Content-Type", "Authorization"} |->
          IF h = "Content-Type" THEN "text/plain" ELSE "Bearer t"] }

\* Request payloads: none, a plain object, an object JSON.stringify throws on
\* (a cycle, a BigInt), already-serialized text.
Payloads == {"undefined", "object", "circular", "text"}

Response(status, bodyOk) ==
    [kind |-> "response", ok |-> (status \in 200..299), status |-> status,
     bodyOk |-> bodyOk]
\* 200 with a JSON body, 200 with a body that is not JSON, 404.
Responses == {Response(200, TRUE), Response(200, FALSE), Response(404, FALSE)}

Err(name, message) == [kind |-> "error", name |-> name, message |-> message]
NetworkError == Err("TypeError", "Failed to fetch")
DecodeError == Err("SyntaxError", "Unexpected end of JSON input")
SerializeError == Err("TypeError", "Converting circular structure to JSON")
\* new Error(`HTTP error! status: ${response.status}`)
HttpError(status) == Err("Error", "HTTP error! status: " \o ToString(status))
ParsedBody == [kind |-> "json", name |-> "", message |-> ""]
Pending == [kind |-> "pending", name |-> "", message |-> ""]

NoConfig == [h \in {} |-> ""]

\* { ...a, ...b }: the own keys of both, b's values winning.
Spread(a, b) == b @@ a

\* options.headers, or an empty spread when options has no such key.
HeadersOf(options) ==
    IF "headers" \in DOMAIN options THEN options.headers ELSE [h \in {} |-> ""]

\* const config = { headers: { "Content-Type": ..., ...options.headers }, ...options }
BuildConfig(options) ==
    Spread([headers |-> Spread(DefaultHeaders, HeadersOf(options))], options)

\* JSON.stringify(data): "threw" on data it cannot serialize.
Stringify(data) ==
    CASE data = "circular" -> "threw"
      [] data = "undefined" -> "undefined"
      [] OTHER -> "text"

BodyOf(config) == IF "body" \in DOMAIN config THEN config.body ELSE "undefined"

NewCall(v, entry, options, pc, config, fetches, result) ==
    [v |-> v, entry |-> entry, options |-> options, pc |-> pc, config |-> config,
     fetches |-> fetches, logs |-> 0, reply |-> Pending, decoded |-> Pending,
     result |-> result, payload |-> "undefined"]

\* request(endpoint, options) up to its first await.
\* src/utils.js serializes an object body first, outside the try block;
\* then both call fetch(url, config) and wait.
request(v, entry, options) ==
    LET config == BuildConfig(options)
        isObject == BodyOf(config) \in {"object", "circular"}
    IN IF v = "root" /\ isObject /\ Stringify(config.body) = "threw"
       THEN NewCall(v, entry, options, "rejected", NoConfig, 0, SerializeError)
       ELSE NewCall(v, entry, options, "fetching",
                    IF v = "root" /\ isObject
                    THEN [config EXCEPT !.body = Stringify(config.body)]
                    ELSE config,
                    1, Pending)

\* post / put of src/js/utils.js: body: JSON.stringify(data) is evaluated
\* before request() is entered.
SendJs(entry, method, data) ==
    LET call == IF Stringify(data) = "threw"
                THEN NewCall("js", entry, [method |-> method], "rejected", NoConfig,
                             0, SerializeError)
                ELSE request("js", entry, [method |-> method, body |-> Stringify(data)])
    IN [call EXCEPT !.payload = data]

\* post / put of src/utils.js: body: data.
SendRoot(entry, method, data) ==
    [request("root", entry, [method |-> method, body |-> data]) EXCEPT !.payload = data]

CanCall == Len(calls) < MaxCalls

\* get(endpoint): src/utils.js passes { method: "GET" }, src/js/utils.js nothing.
Get ==
    /\ CanCall
    /\ calls' = Append(calls,
                       IF variant = "root"
                       THEN request("root", "get", [method |-> "GET"])
                       ELSE request("js", "get", [x \in {} |-> ""]))
    /\ UNCHANGED <<valVars, modalVars, notifVars, debVars>>

Post(data) ==
    /\ CanCall
    /\ calls' = Append(calls,
                       IF variant = "root"
                       THEN SendRoot("post", "POST", data)
                       ELSE SendJs("post", "POST", data))
    /\ UNCHANGED <<valVars, modalVars, notifVars, debVars>>

Put(data) ==
    /\ CanCall
    /\ calls' = Append(calls,
                       IF variant = "root"
                       THEN SendRoot("put", "PUT", data)
                       ELSE SendJs("put", "PUT", data))
    /\ UNCHANGED <<valVars, modalVars, notifVars, debVars>>

Delete ==
    /\ CanCall
    /\ calls' = Append(calls, request(variant, "delete", [method |-> "DELETE"]))
    /\ UNCHANGED <<valVars, modalVars, notifVars, debVars>>

\* Application code calls request() itself, with or without headers.
Request(options) ==
    /\ CanCall
    /\ calls' = Append(calls, request(variant, "request", options))
    /\ UNCHANGED <<valVars, modalVars, notifVars, debVars>>

\* catch (error) { console.error(...); throw error }
Caught(call, error) ==
    [call EXCEPT !.pc = "rejected", !.logs = @ + 1, !.result = error]

\* A client that forgets the response.ok test and decodes every response.
onFetchSettledUnchecked(call, reply) ==
    LET got == [call EXCEPT !.reply = reply]
    IN IF reply.kind = "error"
       THEN Caught(got, reply)
       ELSE [got EXCEPT !.pc = "decoding"]

\* The promise of fetch settles: a response, or a rejection.
onFetchSettled(call, reply) ==
    LET got == [call EXCEPT !.reply = reply]
    IN IF reply.kind = "error"
       THEN Caught(got, reply)
       ELSE IF ~reply.ok
            THEN Caught(got, HttpError(reply.status))
            ELSE [got EXCEPT !.pc = "decoding"]

FetchSettles(c, reply) ==
    /\ calls[c].pc = "fetching"
    /\ calls' = [calls EXCEPT ![c] = onFetchSettled(calls[c], reply)]
    /\ UNCHANGED <<valVars, modalVars, notifVars, debVars>>

\* The promise of response.json() settles.
onJsonSettled(call) ==
    IF call.reply.bodyOk
    THEN [call EXCEPT !.pc = "resolved", !.decoded = ParsedBody, !.result = ParsedBody]
    ELSE Caught([call EXCEPT !.decoded = DecodeError], DecodeError)

JsonSettles(c) ==
    /\ calls[c].pc = "decoding"
    /\ calls' = [calls EXCEPT ![c] = onJsonSettled(calls[c])]
    /\ UNCHANGED <<valVars, modalVars, notifVars, debVars>>

RequestOptions ==
    {[x \in {} |-> ""]} \cup {[headers |-> h] : h \in CallerHeaders}

InitApi ==
    /\ variant \in {"root", "js"}
    /\ calls = <<>>
    /\ InitFormIdle /\ InitModalIdle /\ InitNotifIdle /\ InitDebIdle

NextApi ==
    \/ Get
    \/ \E data \in Payloads : Post(data)
    \/ \E data \in Payloads : Put(data)
    \/ Delete
    \/ \E options \in RequestOptions : Request(options)
    \/ \E c \in 1..Len(calls) : \E reply \in Responses \cup {NetworkError} :
          FetchSettles(c, reply)
    \/ \E c \in 1..Len(calls) : JsonSettles(c)

SpecApi == InitApi /\ [][NextApi]_vars

(***************************************************************************)
(* Properties of the network client                                        *)
(***************************************************************************)
Verbs == {"get", "post", "put", "delete"}
Settled(call) == call.pc \in {"resolved", "rejected"}
VerbCalls == {c \in 1..Len(calls) : calls[c].entry \in Verbs}

\* How a settled call must have ended, given what the transport did.
EndsAsTransportDecides(call) ==
    CASE call.reply.kind = "error" ->
            call.pc = "rejected" /\ call.result = call.reply /\ call.logs = 1
      [] ~call.reply.ok ->
            /\ call.pc = "rejected"
            /\ call.result = HttpError(call.reply.status)
            /\ call.logs = 1
      [] ~call.reply.bodyOk ->
            call.pc = "rejected" /\ call.result = call.decoded /\ call.logs = 1
      [] OTHER ->
            call.pc = "resolved" /\ call.result = ParsedBody /\ call.logs = 0

\* C2 as claimed: every get/post/put/delete makes exactly one transport call,
\* its outcome is decided by that call, and every failing call has logged
\* exactly once.
C2_OneTransportCallAlways ==
    \A c \in VerbCalls :
        /\ calls[c].fetches = 1
        /\ ~Settled(calls[c]) => calls[c].logs = 0
        /\ Settled(calls[c]) => EndsAsTransportDecides(calls[c])

\* C2 (amended): a get/post/put/delete whose payload serializes makes exactly
\* one transport call (never a second), resolves with the parsed body and no
\* log when the response is a success with a decodable body, fails with the
\* error carrying the status when the response is not a success, fails with
\* the transport's or the decoder's own error otherwise, and logs exactly
\* once in each failing case and not before.  A post/put whose payload
\* JSON.stringify rejects fails with that error, with no transport call and
\* no log.
C2_OneTransportCall ==
    \A c \in VerbCalls :
        IF Stringify(calls[c].payload) = "threw"
        THEN /\ calls[c].fetches = 0
             /\ calls[c].logs = 0
             /\ calls[c].pc = "rejected"
             /\ calls[c].result = SerializeError
        ELSE /\ calls[c].fetches = 1
             /\ ~Settled(calls[c]) => calls[c].logs = 0
             /\ Settled(calls[c]) => EndsAsTransportDecides(calls[c])

\* Two calls side by side: a get answered 404 has failed with the status in
\* its error and one log line; a post of an unserializable object has failed
\* without reaching the transport.
C2_Witness ==
    \E c, d \in VerbCalls :
        /\ calls[c].entry = "get"
        /\ calls[c].pc = "rejected"
        /\ calls[c].result = HttpError(404)
        /\ calls[c].logs = 1
        /\ calls[d].entry = "post"
        /\ calls[d].payload = "circular"
        /\ calls[d].pc = "rejected"

\* C3: the headers handed to the transport hold every caller header with the
\* caller's value, and Content-Type: application/json whenever the caller's
\* headers do not set Content-Type themselves.
C3_HeadersMerged ==
    \A c \in 1..Len(calls) :
        calls[c].fetches > 0 =>
            LET caller == HeadersOf(calls[c].options)
                sent == calls[c].config.headers
            IN /\ \A h \in DOMAIN caller : h \in DOMAIN sent /\ sent[h] = caller[h]
               /\ "Content-Type" \notin DOMAIN caller =>
                     /\ "Content-Type" \in DOMAIN sent
                     /\ sent["Content-Type"] = "application/json"

(***************************************************************************)
(* Modals: Modal.show / Modal.hide (src/utils.js), openModal / closeModal  *)
(* (src/js/utils.js).  Both pairs do the same to the document.             *)
(***************************************************************************)
Modals == {"m1", "m2"}                  \* ids of modal nodes in the document
ModalIds == Modals \cup {"missing"}     \* ids a caller may pass
OverflowValues == {"", "auto", "hidden", "scroll"}

\* history keeps the last two operations, newest first; before is the body
\* overflow the operation found.
Remember(op, id) ==
    <<[op |-> op, id |-> id, before |-> overflow]>>
        \o (IF history = <<>> THEN <<>> ELSE <<history[1]>>)

\* if (modal) { remove class "hidden"; document.body.style.overflow = "hidden" }
show(modalId) ==
    /\ hidden' = IF modalId \in Modals THEN [hidden EXCEPT ![modalId] = FALSE] ELSE hidden
    /\ overflow' = IF modalId \in Modals THEN "hidden" ELSE overflow
    /\ history' = Remember("show", modalId)

\* if (modal) { add class "hidden"; document.body.style.overflow = "auto" }
hide(modalId) ==
    /\ hidden' = IF modalId \in Modals THEN [hidden EXCEPT ![modalId] = TRUE] ELSE hidden
    /\ overflow' = IF modalId \in Modals THEN "auto" ELSE overflow
    /\ history' = Remember("hide", modalId)

ModalShow(modalId) ==
    /\ variant = "root"
    /\ show(modalId)
    /\ UNCHANGED <<valVars, apiVars, notifVars, debVars>>

ModalHide(modalId) ==
    /\ variant = "root"
    /\ hide(modalId)
    /\ UNCHANGED <<valVars, apiVars, notifVars, debVars>>

openModal(modalId) ==
    /\ variant = "js"
    /\ show(modalId)
    /\ UNCHANGED <<valVars, apiVars, notifVars, debVars>>

closeModal(modalId) ==
    /\ variant = "js"
    /\ hide(modalId)
    /\ UNCHANGED <<valVars, apiVars, notifVars, debVars>>

\* Any page: each modal shown or hidden, any body overflow.
InitModal ==
    /\ variant \in {"root", "js"}
    /\ hidden \in [Modals -> BOOLEAN]
    /\ overflow \in OverflowValues
    /\ history = <<>>
    /\ InitFormIdle /\ InitApiIdle /\ InitNotifIdle /\ InitDebIdle

NextModal ==
    \/ \E id \in ModalIds : ModalShow(id)
    \/ \E id \in ModalIds : ModalHide(id)
    \/ \E id \in ModalIds : openModal(id)
    \/ \E id \in ModalIds : closeModal(id)

SpecModal == InitModal /\ [][NextModal]_vars

\* C4: for an existing modal, show(id) followed by hide(id) leaves the body
\* overflow as it was before the show, and the modal hidden.
C4_ShowHideRestores ==
    (/\ Len(history) = 2
     /\ history[1].op = "hide"
     /\ history[2].op = "show"
     /\ history[1].id = history[2].id
     /\ history[1].id \in Modals)
        => /\ overflow = history[2].before
           /\ hidden[history[1].id]

(***************************************************************************)
(* Notifications: Notification.show (src/utils.js), showToast              *)
(* (src/js/utils.js).  Nodes are numbered by the show call that made them. *)
(* Time moves from one timer deadline to the next.                         *)
(***************************************************************************)
MaxShows == 3               \* show calls in one behaviour
DefaultDuration == 3000     \* Notification.show's default duration
ToastDuration == 3000       \* showToast's fixed delay
Durations == {10, DefaultDuration}
Types == {"info", "success"}

NodeIds == 1..MaxShows
NewNode == Len(shown) + 1

\* document.body.appendChild(node); setTimeout(() => node.remove(), duration)
AppendAndArm(node, duration) ==
    /\ bodyNodes' = bodyNodes \cup {node}
    /\ timers' = (node :> (now + duration)) @@ timers

\* A show that appends the style block without looking for it first.
InjectStylesUnguarded == TRUE

\* if (!document.querySelector("#notification-styles")) head.appendChild(styles)
InjectStyles == styleBlocks = 0

NotificationShow(type, duration) ==
    /\ variant = "root"
    /\ Len(shown) < MaxShows
    /\ styleBlocks' = IF InjectStyles THEN styleBlocks + 1 ELSE styleBlocks
    /\ AppendAndArm(NewNode, duration)
    /\ shown' = Append(shown, [className |-> "notification notification-" \o type,
                               duration |-> duration,
                               injected |-> InjectStyles])
    /\ UNCHANGED <<now, valVars, apiVars, modalVars, debVars>>

showToast(type) ==
    /\ variant = "js"
    /\ Len(shown) < MaxShows
    /\ AppendAndArm(NewNode, ToastDuration)
    /\ shown' = Append(shown, [className |-> "toast toast-" \o type,
                               duration |-> ToastDuration,
                               injected |-> FALSE])
    /\ UNCHANGED <<now, styleBlocks, valVars, apiVars, modalVars, debVars>>

Due == {n \in DOMAIN timers : timers[n] <= now}

\* No timer is due: time passes until the earliest deadline.
Advance ==
    /\ DOMAIN timers # {}
    /\ Due = {}
    /\ now' = CHOOSE d \in {timers[n] : n \in DOMAIN timers} :
                 \A n \in DOMAIN timers : d <= timers[n]
    /\ UNCHANGED <<bodyNodes, styleBlocks, timers, shown,
                   valVars, apiVars, modalVars, debVars>>

\* A callback that looks the notification up again and removes the first
\* one in the document instead of its own.
RemovedFirstInDocument(node) ==
    IF bodyNodes = {}
    THEN {}
    ELSE {CHOOSE n \in bodyNodes : \A m \in bodyNodes : n <= m}

\* The nodes the timer callback of `node` removes: notification.remove().
Removed(node) == {node}

\* The timer of a node fires.
TimerFires(node) ==
    /\ node \in Due
    /\ bodyNodes' = bodyNodes \ Removed(node)
    /\ timers' = [n \in DOMAIN timers \ {node} |-> timers[n]]
    /\ UNCHANGED <<now, styleBlocks, shown, valVars, apiVars, modalVars, debVars>>

InitNotify ==
    /\ variant \in {"root", "js"}
    /\ bodyNodes = {}
    /\ styleBlocks = 0
    /\ timers = <<>>
    /\ now = 0
    /\ shown = <<>>
    /\ InitFormIdle /\ InitApiIdle /\ InitModalIdle /\ InitDebIdle

NextNotify ==
    \/ \E type \in Types : \E duration \in Durations : NotificationShow(type, duration)
    \/ \E type \in Types : showToast(type)
    \/ Advance
    \/ \E node \in NodeIds : TimerFires(node)

\* The event loop lets time pass and runs every timer that is due.
SpecNotify ==
    /\ InitNotify
    /\ [][NextNotify]_vars
    /\ WF_vars(Advance)
    /\ \A node \in NodeIds : WF_vars(TimerFires(node))

\* C5: every show inserts exactly one new node at once; the nodes in the
\* document are exactly those of the shows whose timer has not fired; a
\* timer removes its own node and no other; every node is eventually
\* removed, so none remains once all timers have fired.
C5_NodesFollowTimers ==
    /\ [](bodyNodes = DOMAIN timers)
    /\ [][Len(shown') # Len(shown) =>
            /\ Len(shown') = Len(shown) + 1
            /\ Len(shown') \notin bodyNodes
            /\ bodyNodes' = bodyNodes \cup {Len(shown')}]_vars
    /\ [][\A node \in NodeIds :
            (node \in DOMAIN timers /\ node \notin DOMAIN timers') =>
                bodyNodes' = bodyNodes \ {node}]_vars
    /\ \A node \in NodeIds : (node \in bodyNodes) ~> (node \notin bodyNodes)

\* A later notification with a short duration has gone while an earlier one
\* with the default duration is still displayed.
C5_Witness ==
    /\ Len(shown) = 2
    /\ shown[1].duration = DefaultDuration
    /\ shown[2].duration = 10
    /\ bodyNodes = {1}
    /\ DOMAIN timers = {1}

\* The calls of Notification.show so far (showToast injects no styles).
NotificationShows == IF variant = "root" THEN 1..Len(shown) ELSE {}

\* C6: once Notification.show has been called, the document holds exactly
\* one notification-styles block: the first call injected it, no later call
\* injected another, and no dismissal removed it.
C6_StylesInjectedOnce ==
    /\ NotificationShows = {} => styleBlocks = 0
    /\ NotificationShows # {} =>
          /\ styleBlocks = 1
          /\ \A i \in NotificationShows : shown[i].injected <=> (i = 1)

\* Three notifications shown, two of them dismissed already.
C6_Witness ==
    /\ variant = "root"
    /\ Len(shown) = 3
    /\ Cardinality(bodyNodes) = 1
    /\ styleBlocks = 1

(***************************************************************************)
(* debounce (src/js/utils.js).  One debounced function: its closure        *)
(* variable `timeout`, the timers setTimeout holds for it, and a log of    *)
(* the calls of the debounced function and of func.  A timer expires at    *)
(* some moment after `wait`; when is up to the event loop.                 *)
(***************************************************************************)
MaxDebounceCalls == 4       \* calls of the debounced function in one behaviour
Args == {"a", "b"}

Without(map, id) == [k \in DOMAIN map \ {id} |-> map[k]]

\* clearTimeout(id): the timer, if still held, will not run.
clearTimeout(map, id) == Without(map, id)

\* A debounce that starts the new timer without cancelling the old one.
KeepPrevious == pending

\* The first statement of executedFunction's timer handling: clearTimeout(timeout).
CancelPrevious == clearTimeout(pending, timeout)

NumCalls == Cardinality({k \in 1..Len(events) : events[k].kind = "call"})

\* executedFunction(...args): clearTimeout(timeout); timeout = setTimeout(later, wait)
executedFunction(args) ==
    /\ variant = "js"
    /\ NumCalls < MaxDebounceCalls
    /\ pending' = (nextTimer :> args) @@ CancelPrevious
    /\ timeout' = nextTimer
    /\ nextTimer' = nextTimer + 1
    /\ events' = Append(events, [kind |-> "call", args |-> args])
    /\ UNCHANGED <<valVars, apiVars, modalVars, notifVars>>

\* The timer id expires and runs later(): clearTimeout(timeout); func(...args)
later(id) ==
    /\ id \in DOMAIN pending
    /\ pending' = clearTimeout(Without(pending, id), timeout)
    /\ events' = Append(events, [kind |-> "invoke", args |-> pending[id]])
    /\ UNCHANGED <<timeout, nextTimer, valVars, apiVars, modalVars, notifVars>>

InitDebounce ==
    /\ variant = "js"
    /\ timeout = 0
    /\ pending = <<>>
    /\ nextTimer = 1
    /\ events = <<>>
    /\ InitFormIdle /\ InitApiIdle /\ InitModalIdle /\ InitNotifIdle

TimerIds == 1..MaxDebounceCalls

NextDebounce ==
    \/ \E args \in Args : executedFunction(args)
    \/ \E id \in TimerIds : later(id)

\* The event loop runs every timer that is left pending.
SpecDebounce ==
    /\ InitDebounce
    /\ [][NextDebounce]_vars
    /\ \A id \in TimerIds : WF_vars(later(id))

LastIs(kind) == events # <<>> /\ events[Len(events)].kind = kind

\* C10: at most one timer is pending; func runs only directly after the most
\* recent call, with that call's arguments (so never for a call that another
\* call followed, and once per burst); a timer is pending exactly while the
\* latest call has not been served; and after the last call func does run.
C10_Debounce ==
    /\ [](Cardinality(DOMAIN pending) <= 1)
    /\ [](\A k \in 1..Len(events) :
            events[k].kind = "invoke" =>
                /\ k > 1
                /\ events[k - 1] = [kind |-> "call", args |-> events[k].args])
    /\ []((DOMAIN pending # {}) <=> LastIs("call"))
    /\ LastIs("call") ~> LastIs("invoke")

\* A burst of two calls, then func run once with the arguments of the second.
C10_Witness ==
    /\ Len(events) = 3
    /\ events[1] = [kind |-> "call", args |-> "a"]
    /\ events[2] = [kind |-> "call", args |-> "b"]
    /\ events[3] = [kind |-> "invoke", args |-> "b"]
    /\ pending = <<>>

=============================================================================
